---- MODULE Spec2Model ----
(***************************************************************************)
(* State-machine model of the mqtt adapter plugin (src/src/main.rs).       *)
(*                                                                         *)
(* Two threads: the bridge thread runs GatewayBridge::run_forever (the     *)
(* registration handshake followed by the relay loop); the main thread     *)
(* runs Plugin::run_forever (the dispatcher).  They communicate through    *)
(* the two std::sync::mpsc channels made by GatewayBridge::new.            *)
(*                                                                         *)
(* The nanomsg sockets and the gateway behind them are the environment:    *)
(* every socket call may fail, and a read delivers whatever bytes the      *)
(* gateway chose to send.                                                  *)
(***************************************************************************)
EXTENDS Naturals, Sequences, FiniteSets

(***************************************************************************)
(* Bounds of the model.                                                    *)
(***************************************************************************)
\* number of inputs the environment supplies after the handshake: frames
\* delivered to the relay loop's read, frames put on the pair channel, and
\* events handed to Plugin.sender
MaxInputs == 2

(***************************************************************************)
(* Program constants.                                                      *)
(***************************************************************************)
BASE_URL == "ipc:///tmp"
ADAPTER_MANAGER_URL == "ipc:///tmp/gateway.addonManager"
\* the id main() gives to both GatewayBridge::new and Plugin::new
LocalPluginId == "mqtt"

(***************************************************************************)
(* Identifiers and values the gateway may use in its messages.             *)
(***************************************************************************)
PluginIds == {"mqtt", "zwave"}
AdapterIds == {"a1", "a2"}
DeviceIds == {"d1", "d2"}
Properties == {[name |-> "on", value |-> "true"], [name |-> "on", value |-> "false"]}
\* the lifecycle commands, which no code path looks into, name one adapter and device
LifecycleAdapterIds == {"a1"}
LifecycleDeviceIds == {"d1"}
Timeouts == {60}

(***************************************************************************)
(* enum GatewayMessage: the steady-state inbound commands.                 *)
(***************************************************************************)
UnloadPlugin == [messageType : {"unloadPlugin"}, pluginId : PluginIds]
UnloadAdapter == [messageType : {"unloadAdapter"}, pluginId : PluginIds,
                  adapterId : LifecycleAdapterIds]
SetProperty == [messageType : {"setProperty"}, pluginId : PluginIds, adapterId : AdapterIds,
                deviceId : DeviceIds, property : Properties]
StartPairing == [messageType : {"startPairing"}, pluginId : PluginIds, adapterId : AdapterIds,
                 timeout : Timeouts]
CancelPairing == [messageType : {"cancelPairing"}, pluginId : PluginIds, adapterId : AdapterIds]
RemoveThing == [messageType : {"removeThing"}, pluginId : PluginIds,
                adapterId : LifecycleAdapterIds, deviceId : LifecycleDeviceIds]
CancelRemoveThing == [messageType : {"cancelRemoveThing"}, pluginId : PluginIds,
                      adapterId : LifecycleAdapterIds, deviceId : LifecycleDeviceIds]
GatewayMessage == UnloadPlugin \cup UnloadAdapter \cup SetProperty \cup StartPairing
                  \cup CancelPairing \cup RemoveThing \cup CancelRemoveThing

(***************************************************************************)
(* enum PluginMessage: the steady-state outbound events, as Rust values:   *)
(* the variant and its fields under the names the source gives them.  The  *)
(* model keeps one value of each variant.                                  *)
(***************************************************************************)
PluginUnloaded == {[variant |-> "PluginUnloaded", fields |-> [plugin_id |-> LocalPluginId]]}
AdapterUnloaded == {[variant |-> "AdapterUnloaded",
                     fields |-> [plugin_id |-> LocalPluginId, adapter_id |-> "a1"]]}
AddAdapter == {[variant |-> "AddAdapter",
                fields |-> [plugin_id |-> LocalPluginId, adapter_id |-> "a1", name |-> "A1"]]}
HandleDeviceAdded == {[variant |-> "HandleDeviceAdded",
                       fields |-> [plugin_id |-> LocalPluginId, adapter_id |-> "a1",
                                   id |-> "d1", name |-> "D1", typ |-> "onOffSwitch",
                                   properties |-> << >>, actions |-> << >>]]}
HandleDeviceRemoved == {[variant |-> "HandleDeviceRemoved",
                         fields |-> [plugin_id |-> LocalPluginId, adapter_id |-> "a1",
                                     id |-> "d1"]]}
PropertyChanged == {[variant |-> "PropertyChanged",
                     fields |-> [plugin_id |-> LocalPluginId, adapter_id |-> "a1",
                                 device_id |-> "d1",
                                 property |-> [name |-> "on", value |-> "true"]]]}
PluginMessage == PluginUnloaded \cup AdapterUnloaded \cup AddAdapter \cup HandleDeviceAdded
                 \cup HandleDeviceRemoved \cup PropertyChanged

\* #[serde(rename_all = "camelCase")] on the identifiers of enum PluginMessage:
\* the words after an underscore are capitalised and joined, the first
\* letter is in lower case
camelCase ==
    [PluginUnloaded |-> "pluginUnloaded", AdapterUnloaded |-> "adapterUnloaded",
     AddAdapter |-> "addAdapter", HandleDeviceAdded |-> "handleDeviceAdded",
     HandleDeviceRemoved |-> "handleDeviceRemoved", PropertyChanged |-> "propertyChanged",
     plugin_id |-> "pluginId", adapter_id |-> "adapterId", device_id |-> "deviceId",
     id |-> "id", name |-> "name", typ |-> "typ", properties |-> "properties",
     actions |-> "actions", property |-> "property"]

\* serde_json::to_string(&msg_to_send) for #[serde(tag = "messageType",
\* content = "data", rename_all = "camelCase")]: the JSON object written
to_string(m) ==
    [messageType |-> camelCase[m.variant],
     data |-> [n \in {camelCase[f] : f \in DOMAIN m.fields} |->
                  m.fields[CHOOSE f \in DOMAIN m.fields : camelCase[f] = n]]]

(***************************************************************************)
(* enum PluginRegisterMessage / GatewayRegisterMessage: the handshake.     *)
(***************************************************************************)
RegisterPlugin(id) == [messageType |-> "registerPlugin", pluginId |-> id]
IpcBaseAddrs == {"gateway.plugin.mqtt", "gateway.plugin.x"}
RegisterPluginReply == [messageType : {"registerPluginReply"}, pluginId : {LocalPluginId},
                        ipcBaseAddr : IpcBaseAddrs]

(***************************************************************************)
(* Byte sequences.  A frame is modelled by what the JSON parser makes of   *)
(* it and of its concatenation with other frames:                          *)
(*   whole(m)  the JSON text of message m                                  *)
(*   part(m)   the JSON text of m without its final closing brace          *)
(*   close     the single byte "}"                                         *)
(*   ws        bytes that are all JSON whitespace (or no bytes at all)     *)
(*   unknown   a JSON document whose messageType is not a known tag        *)
(*   junk      bytes that are not JSON                                     *)
(***************************************************************************)
Whole(m) == [k |-> "whole", m |-> m]
Part(m) == [k |-> "part", m |-> m]
Close == [k |-> "close"]
Ws == [k |-> "ws"]
Unknown == [k |-> "unknown"]
Junk == [k |-> "junk"]

\* frames the gateway sends in the steady state
Frames == {Whole(m) : m \in GatewayMessage} \cup {Part(m) : m \in CancelPairing}
          \cup {Close, Ws, Unknown, Junk}
WellFormedFrames == {Whole(m) : m \in GatewayMessage}
MalformedFrames == Frames \ WellFormedFrames
\* frames the gateway sends on the pair channel
PairFrames == {Whole(m) : m \in UnloadPlugin}
\* replies the gateway sends to the registration request
Replies == {Whole(m) : m \in RegisterPluginReply} \cup {Whole(m) : m \in UnloadPlugin}
           \cup {Unknown, Junk}

ParseErr == [ok |-> FALSE]
ParseOk(m) == [ok |-> TRUE, msg |-> m]

RECURSIVE StripWs(_)
\* the buffer as the JSON parser sees it: whitespace between tokens is skipped
StripWs(b) ==
    IF b = << >> THEN << >>
    ELSE IF Head(b) = Ws THEN StripWs(Tail(b))
    ELSE <<Head(b)>> \o StripWs(Tail(b))

\* serde_json::from_slice / from_str: exactly one JSON value, nothing but
\* whitespace around it, of a variant of the expected enum
from_json(b, variants) ==
    LET s == StripWs(b) IN
    IF Len(s) = 1 /\ s[1].k = "whole" /\ s[1].m \in variants THEN ParseOk(s[1].m)
    ELSE IF Len(s) = 2 /\ s[1].k = "part" /\ s[2] = Close /\ s[1].m \in variants
         THEN ParseOk(s[1].m)
    ELSE ParseErr

\* serde_json::from_slice(&buf) as a GatewayMessage
from_slice(b) == from_json(b, GatewayMessage)

\* serde_json::from_str(&rep) as a GatewayRegisterMessage
from_str(r) == from_json(<<r>>, RegisterPluginReply)

\* format!("{}/{}", BASE_URL, &ipc_base_addr)
pair_url(ipc_base_addr) == <<BASE_URL, "/", ipc_base_addr>>

(***************************************************************************)
(* The registry: struct Plugin { id, adapters }, struct Adapter { id,      *)
(* devices }, struct Device { id, props }.                                 *)
(***************************************************************************)
EmptyMap == [x \in {} |-> x]

\* Device::new
Device_new(id) == [id |-> id, props |-> EmptyMap]

\* Plugin::new: the registry starts empty
Plugin_new(id) == [id |-> id, adapters |-> EmptyMap]

\* a registry as a collaborator would have populated it: adapter a1 with device d1
LoadedAdapters == [a \in {"a1"} |-> [id |-> a, devices |-> [d \in {"d1"} |-> Device_new(d)]]]

(***************************************************************************)
(* The adapter capability set invoked by the dispatcher.  The methods are  *)
(* called by handle_msg but defined nowhere in the source; they are        *)
(* modelled from the interface description: each returns an outcome, and   *)
(* none can change the registry (handle_msg only holds &self).  o is the   *)
(* outcome the adapter's driver reports.                                   *)
(***************************************************************************)
AdapterOutcomes == {"Ok", "Err"}

set_property(adapter, device_id, property, o) ==
    IF device_id \in DOMAIN adapter.devices THEN o ELSE "NotFound"

start_pairing(adapter, o) == o

cancel_pairing(adapter, o) == o

Call(adapter_id, op, args) == [adapter |-> adapter_id, op |-> op, args |-> args]

\* what one run of handle_msg amounts to: its result ("Ok", an error
\* outcome, or "Panic" when indexing the registry with a missing key) and
\* the adapter operations it invoked
Ret(result, calls) == [result |-> result, calls |-> calls]

\* a bug to test the claims against: the pluginId of the message is not looked at
plugin_id_unfiltered(self, msg) == TRUE

\* the negation of `plugin_id != self.id` in the SetProperty, StartPairing and
\* CancelPairing arms
plugin_id_matches(self, msg) == msg.pluginId = self.id

\* a bug to test the claims against: the operation is invoked on the first
\* device of the model whatever the message says, and invoked twice
set_property_miscalled(msg) ==
    <<Call(msg.adapterId, "set_property", <<"d1", msg.property>>),
      Call(msg.adapterId, "set_property", <<"d1", msg.property>>)>>

\* adapter.set_property(device_id, property): the one invocation made by the
\* SetProperty arm
set_property_called(msg) ==
    <<Call(msg.adapterId, "set_property", <<msg.deviceId, msg.property>>)>>

\* a bug to test the claims against: a lifecycle command that names an
\* adapter invokes an operation of it
lifecycle_calls_pairing(msg) ==
    IF "adapterId" \in DOMAIN msg THEN <<Call(msg.adapterId, "cancel_pairing", << >>)>>
    ELSE << >>

\* the adapter operations invoked by the UnloadPlugin, UnloadAdapter,
\* RemoveThing and CancelRemoveThing arms, which are `Ok(())` alone: none
lifecycle_calls(msg) == << >>

\* a bug to test the claims against: UnloadPlugin for the local plugin puts
\* the PluginUnloaded event on self.sender
handle_msg_sends_unloaded(self, msg) ==
    IF msg.messageType = "unloadPlugin" /\ msg.pluginId = self.id
    THEN <<[variant |-> "PluginUnloaded", fields |-> [plugin_id |-> self.id]]>>
    ELSE << >>

\* the events handle_msg puts on self.sender: no arm uses the field
handle_msg_sends(self, msg) == << >>

\* Plugin::handle_msg(&self, msg)
handle_msg(self, msg, o) ==
    CASE msg.messageType = "setProperty" ->
            IF ~plugin_id_matches(self, msg) THEN Ret("Ok", << >>)
            ELSE IF msg.adapterId \notin DOMAIN self.adapters THEN Ret("Panic", << >>)
            ELSE Ret(set_property(self.adapters[msg.adapterId], msg.deviceId, msg.property, o),
                     set_property_called(msg))
      [] msg.messageType = "unloadPlugin" -> Ret("Ok", lifecycle_calls(msg))
      [] msg.messageType = "unloadAdapter" -> Ret("Ok", lifecycle_calls(msg))
      [] msg.messageType = "startPairing" ->
            IF ~plugin_id_matches(self, msg) THEN Ret("Ok", << >>)
            ELSE IF msg.adapterId \notin DOMAIN self.adapters THEN Ret("Panic", << >>)
            ELSE Ret(start_pairing(self.adapters[msg.adapterId], o),
                     <<Call(msg.adapterId, "start_pairing", << >>)>>)
      [] msg.messageType = "cancelPairing" ->
            IF ~plugin_id_matches(self, msg) THEN Ret("Ok", << >>)
            ELSE IF msg.adapterId \notin DOMAIN self.adapters THEN Ret("Panic", << >>)
            ELSE Ret(cancel_pairing(self.adapters[msg.adapterId], o),
                     <<Call(msg.adapterId, "cancel_pairing", << >>)>>)
      [] msg.messageType = "removeThing" -> Ret("Ok", lifecycle_calls(msg))
      [] msg.messageType = "cancelRemoveThing" -> Ret("Ok", lifecycle_calls(msg))

(***************************************************************************)
(* std::sync::mpsc channels.                                               *)
(***************************************************************************)
\* Sender::send
send(q, v) == Append(q, v)

\* a bug to test the claims against: the newest message is taken first
try_recv_newest(q) == [val |-> q[Len(q)], rest |-> SubSeq(q, 1, Len(q) - 1)]

\* a bug to test the claims against: the message is left in the channel
try_recv_peek(q) == [val |-> Head(q), rest |-> q]

\* self.msg_receiver.try_recv() of the relay loop, on a non-empty channel
msg_receiver_try_recv(q) == [val |-> Head(q), rest |-> Tail(q)]

\* a bug to test the claims against: the newest message is taken first
receiver_try_recv_newest(q) == [val |-> q[Len(q)], rest |-> SubSeq(q, 1, Len(q) - 1)]

\* self.receiver.try_recv() of the dispatcher, on a non-empty channel
receiver_try_recv(q) == [val |-> Head(q), rest |-> Tail(q)]

(***************************************************************************)
(* State.                                                                  *)
(***************************************************************************)
VARIABLES
    bridge_pc,     \* where the bridge thread is in GatewayBridge::run_forever
    bridge_err,    \* the step whose failure ended the bridge thread, or "none"
    socket,        \* the Req socket and its endpoint
    req_wire,      \* requests written on the Req socket
    rep,           \* the reply read from the Req socket
    ipc_base_addr, \* the address taken from the reply
    socket_pair,   \* the Pair socket, its endpoint and the url it connected to
    pair_in,       \* frames the gateway sent on the pair channel, not yet read
    wire,          \* messages written on the pair channel
    buf,           \* the relay loop's read buffer
    msg_to_send,   \* the message try_recv returned in this iteration, if any
    gp_channel,    \* gateway -> plugin mpsc channel (msg_sender / receiver)
    pg_channel,    \* plugin -> gateway mpsc channel (sender / msg_receiver)
    pg_sent,       \* history: every message accepted by pg_channel
    pg_refused,    \* history: sends refused because the receiver was dropped
    gp_sent,       \* history: number of messages sent on gp_channel
    plugin,        \* struct Plugin: id and adapters
    main_pc,       \* the main thread: "running", or "panicked" (process exit)
    handled,       \* history: messages handle_msg was applied to, with results
    calls          \* history: adapter operations invoked

vars == <<bridge_pc, bridge_err, socket, req_wire, rep, ipc_base_addr, socket_pair,
          pair_in, wire, buf, msg_to_send, gp_channel, pg_channel, pg_sent, pg_refused,
          gp_sent, plugin, main_pc, handled, calls>>

bridge_vars == <<bridge_pc, bridge_err, socket, req_wire, rep, ipc_base_addr, socket_pair,
                 wire, buf, msg_to_send>>
main_vars == <<plugin, main_pc, handled, calls>>

NoSocket == [state |-> "none", ep |-> "none"]
NoReply == [k |-> "none"]
NoAddr == "none"
NoMsg == [variant |-> "none"]

\* the bridge thread is inside the `loop`: at the read, at try_recv, in
\* write_all, or before endpoint_pair.shutdown()
InRelayLoop == bridge_pc \in {"read", "drain", "write", "shutdown"}
\* the bridge thread has ended and dropped its GatewayBridge and sockets
BridgeEnded == bridge_pc \in {"returned", "panicked"}
\* the process is alive as long as the main thread is
Alive == main_pc = "running"

\* inputs the environment has supplied since the handshake
Inputs == Len(buf) + Len(pair_in) + Len(pg_sent) + pg_refused

\* main(): GatewayBridge::new("mqtt"), thread::spawn, Plugin::new("mqtt", ..)
InitWith(adapters) ==
    /\ bridge_pc = "req_new"
    /\ bridge_err = "none"
    /\ socket = NoSocket
    /\ req_wire = << >>
    /\ rep = NoReply
    /\ ipc_base_addr = NoAddr
    /\ socket_pair = NoSocket
    /\ pair_in = << >>
    /\ wire = << >>
    /\ buf = << >>
    /\ msg_to_send = NoMsg
    /\ gp_channel = << >>
    /\ pg_channel = << >>
    /\ pg_sent = << >>
    /\ pg_refused = 0
    /\ gp_sent = 0
    /\ plugin = [Plugin_new(LocalPluginId) EXCEPT !.adapters = adapters]
    /\ main_pc = "running"
    /\ handled = << >>
    /\ calls = << >>

Init == InitWith(EmptyMap)

(***************************************************************************)
(* The bridge thread: GatewayBridge::run_forever.                          *)
(*                                                                         *)
(* Every `?` returns the error to the closure of thread::spawn, whose      *)
(* unwrap() panics; a panic of the spawned thread ends that thread only.   *)
(* Unwinding (like returning) drops the sockets, which closes them, and    *)
(* the GatewayBridge with its channel ends.                                *)
(***************************************************************************)
\* impl Drop for Socket
Dropped(s) == IF s.state = "open" THEN [s EXCEPT !.state = "closed"] ELSE s

\* the bridge thread ends with a panic at the given step
BridgePanics(step) ==
    /\ bridge_pc' = "panicked"
    /\ bridge_err' = step

\* Socket::new(Protocol::Req)?
HsNewSocket ==
    /\ Alive /\ bridge_pc = "req_new"
    /\ \E ok \in BOOLEAN :
        IF ok THEN /\ socket' = [state |-> "open", ep |-> "none"]
                   /\ bridge_pc' = "req_connect"
                   /\ UNCHANGED bridge_err
        ELSE /\ BridgePanics("req_new")
             /\ UNCHANGED socket
    /\ UNCHANGED <<req_wire, rep, ipc_base_addr, socket_pair, pair_in, wire, buf,
                   gp_channel, pg_channel, pg_sent, pg_refused, gp_sent, msg_to_send,
                   main_vars>>

\* socket.connect(ADAPTER_MANAGER_URL)?
HsConnect ==
    /\ Alive /\ bridge_pc = "req_connect"
    /\ \E ok \in BOOLEAN :
        IF ok THEN /\ socket' = [socket EXCEPT !.ep = "connected"]
                   /\ bridge_pc' = "req_write"
                   /\ UNCHANGED bridge_err
        ELSE /\ BridgePanics("req_connect")
             /\ socket' = Dropped(socket)
    /\ UNCHANGED <<req_wire, rep, ipc_base_addr, socket_pair, pair_in, wire, buf,
                   gp_channel, pg_channel, pg_sent, pg_refused, gp_sent, msg_to_send,
                   main_vars>>

\* socket.write_all(serde_json::to_string(&req)?.as_bytes())?
HsWrite ==
    /\ Alive /\ bridge_pc = "req_write"
    /\ \E ok \in BOOLEAN :
        IF ok THEN /\ req_wire' = Append(req_wire, RegisterPlugin(LocalPluginId))
                   /\ bridge_pc' = "req_read"
                   /\ UNCHANGED <<bridge_err, socket>>
        ELSE /\ BridgePanics("req_write")
             /\ socket' = Dropped(socket)
             /\ UNCHANGED req_wire
    /\ UNCHANGED <<rep, ipc_base_addr, socket_pair, pair_in, wire, buf,
                   gp_channel, pg_channel, pg_sent, pg_refused, gp_sent, msg_to_send,
                   main_vars>>

\* socket.read_to_string(&mut rep)?
HsRead ==
    /\ Alive /\ bridge_pc = "req_read"
    /\ \/ \E r \in Replies :
            /\ rep' = r
            /\ bridge_pc' = "req_shutdown"
            /\ UNCHANGED <<bridge_err, socket>>
       \/ /\ BridgePanics("req_read")
          /\ socket' = Dropped(socket)
          /\ UNCHANGED rep
    /\ UNCHANGED <<req_wire, ipc_base_addr, socket_pair, pair_in, wire, buf,
                   gp_channel, pg_channel, pg_sent, pg_refused, gp_sent, msg_to_send,
                   main_vars>>

\* endpoint.shutdown()?
HsShutdown ==
    /\ Alive /\ bridge_pc = "req_shutdown"
    /\ \E ok \in BOOLEAN :
        IF ok THEN /\ socket' = [socket EXCEPT !.ep = "shutdown"]
                   /\ bridge_pc' = "req_parse"
                   /\ UNCHANGED bridge_err
        ELSE /\ BridgePanics("req_shutdown")
             /\ socket' = Dropped(socket)
    /\ UNCHANGED <<req_wire, rep, ipc_base_addr, socket_pair, pair_in, wire, buf,
                   gp_channel, pg_channel, pg_sent, pg_refused, gp_sent, msg_to_send,
                   main_vars>>

\* a bug to test the claims against: the result of the parse is not checked
after_parse_unchecked(parsed) == "pair_new"

\* where the bridge thread goes after serde_json::from_str(&rep)?
after_parse(parsed) == IF parsed.ok THEN "pair_new" ELSE "panicked"

\* let msg: GatewayRegisterMessage = serde_json::from_str(&rep)?;
\* let ipc_base_addr = match msg { RegisterPluginReply {ipc_base_addr, ..} => .. }
HsParse ==
    /\ Alive /\ bridge_pc = "req_parse"
    /\ LET parsed == from_str(rep) IN
        /\ bridge_pc' = after_parse(parsed)
        /\ IF bridge_pc' = "panicked"
           THEN /\ bridge_err' = "req_parse"
                /\ socket' = Dropped(socket)
           ELSE UNCHANGED <<bridge_err, socket>>
        /\ ipc_base_addr' = IF parsed.ok THEN parsed.msg.ipcBaseAddr ELSE ipc_base_addr
    /\ UNCHANGED <<req_wire, rep, socket_pair, pair_in, wire, buf,
                   gp_channel, pg_channel, pg_sent, pg_refused, gp_sent, msg_to_send,
                   main_vars>>

\* Socket::new(Protocol::Pair)?
PairNewSocket ==
    /\ Alive /\ bridge_pc = "pair_new"
    /\ \E ok \in BOOLEAN :
        IF ok THEN /\ socket_pair' = [state |-> "open", ep |-> "none"]
                   /\ bridge_pc' = "pair_connect"
                   /\ UNCHANGED <<bridge_err, socket>>
        ELSE /\ BridgePanics("pair_new")
             /\ socket' = Dropped(socket)
             /\ UNCHANGED socket_pair
    /\ UNCHANGED <<req_wire, rep, ipc_base_addr, pair_in, wire, buf,
                   gp_channel, pg_channel, pg_sent, pg_refused, gp_sent, msg_to_send,
                   main_vars>>

\* socket_pair.connect(&format!("{}/{}", BASE_URL, &ipc_base_addr))?
PairConnect ==
    /\ Alive /\ bridge_pc = "pair_connect"
    /\ \E ok \in BOOLEAN :
        IF ok THEN /\ socket_pair' = [state |-> "open", ep |-> "connected",
                                      url |-> pair_url(ipc_base_addr)]
                   /\ bridge_pc' = "read"
                   /\ UNCHANGED <<bridge_err, socket>>
        ELSE /\ BridgePanics("pair_connect")
             /\ socket' = Dropped(socket)
             /\ socket_pair' = Dropped(socket_pair)
    /\ UNCHANGED <<req_wire, rep, ipc_base_addr, pair_in, wire, buf,
                   gp_channel, pg_channel, pg_sent, pg_refused, gp_sent, msg_to_send,
                   main_vars>>

(***************************************************************************)
(* The relay loop (the `loop` of GatewayBridge::run_forever).              *)
(***************************************************************************)
\* socket.nb_read_to_end(&mut buf) returning Ok: the bytes of the message
\* received are appended to buf
nb_read_to_end(b, bytes) == Append(b, bytes)

\* One read step.  The read is made on `socket`, the Req socket of the
\* handshake; it either fails (nothing to receive, or the socket refuses)
\* or delivers the bytes f the peer of that socket sent.  buf is declared
\* before the loop and never cleared.
RelayRead ==
    /\ Alive /\ bridge_pc = "read"
    /\ \/ UNCHANGED <<buf, gp_channel, gp_sent>>
       \/ /\ Inputs < MaxInputs
          /\ \E f \in Frames :
                LET b == nb_read_to_end(buf, f)
                    parsed == from_slice(b)
                IN /\ buf' = b
                   /\ IF parsed.ok
                      THEN /\ gp_channel' = send(gp_channel,
                                                 [msg |-> parsed.msg, n |-> gp_sent + 1])
                           /\ gp_sent' = gp_sent + 1
                      ELSE UNCHANGED <<gp_channel, gp_sent>>
    /\ bridge_pc' = "drain"
    /\ UNCHANGED <<bridge_err, socket, req_wire, rep, ipc_base_addr, socket_pair, pair_in,
                   wire, pg_channel, pg_sent, pg_refused, msg_to_send,
                   main_vars>>

\* a bug to test the claims against: every outbound message ends the loop
is_plugin_unloaded_always(m) == TRUE

\* a bug to test the claims against: no outbound message ends the loop
is_plugin_unloaded_never(m) == FALSE

\* match msg_to_send { PluginMessage::PluginUnloaded {..} => .., _ => {} }
is_plugin_unloaded(m) == m \in PluginUnloaded

\* if let Ok(msg_to_send) = self.msg_receiver.try_recv(): the message is
\* taken from the channel and held by the bridge thread; on Err the thread
\* sleeps and the next iteration starts
RelayDrain ==
    /\ Alive /\ bridge_pc = "drain"
    /\ IF pg_channel = << >>
       THEN /\ bridge_pc' = "read"
            /\ UNCHANGED <<pg_channel, msg_to_send>>
       ELSE LET r == msg_receiver_try_recv(pg_channel) IN
            /\ pg_channel' = r.rest
            /\ msg_to_send' = r.val
            /\ bridge_pc' = "write"
    /\ UNCHANGED <<bridge_err, socket, req_wire, rep, ipc_base_addr, socket_pair, pair_in,
                   wire, buf, gp_channel, pg_sent, pg_refused, gp_sent, main_vars>>

\* socket_pair.write_all(serde_json::to_string(&msg_to_send)?.as_bytes()).unwrap()
\* and the match on msg_to_send.  The write is a blocking send: the bridge
\* thread stays here, holding the message, until the send completes or
\* fails, while the main thread runs on.  A failed write panics the thread.
RelayWrite ==
    /\ Alive /\ bridge_pc = "write"
    /\ \E write_ok \in BOOLEAN :
        IF ~write_ok
        THEN /\ BridgePanics("pair_write")
             /\ socket' = Dropped(socket)
             /\ socket_pair' = Dropped(socket_pair)
             /\ msg_to_send' = NoMsg
             /\ UNCHANGED wire
        ELSE /\ wire' = Append(wire, to_string(msg_to_send))
             /\ IF is_plugin_unloaded(msg_to_send)
                THEN /\ bridge_pc' = "shutdown"
                     /\ UNCHANGED msg_to_send
                ELSE /\ bridge_pc' = "read"
                     /\ msg_to_send' = NoMsg
             /\ UNCHANGED <<bridge_err, socket, socket_pair>>
    /\ UNCHANGED <<req_wire, rep, ipc_base_addr, pair_in, buf, gp_channel, pg_channel,
                   pg_sent, pg_refused, gp_sent, main_vars>>

\* endpoint_pair.shutdown()?
RelayShutdown ==
    /\ Alive /\ bridge_pc = "shutdown"
    /\ \E shutdown_ok \in BOOLEAN :
        IF shutdown_ok
        THEN /\ socket_pair' = [socket_pair EXCEPT !.ep = "shutdown"]
             /\ bridge_pc' = "return"
             /\ UNCHANGED <<bridge_err, socket, msg_to_send>>
        ELSE /\ BridgePanics("pair_shutdown")
             /\ socket' = Dropped(socket)
             /\ socket_pair' = Dropped(socket_pair)
             /\ msg_to_send' = NoMsg
    /\ UNCHANGED <<req_wire, rep, ipc_base_addr, pair_in, wire, buf, gp_channel, pg_channel,
                   pg_sent, pg_refused, gp_sent, main_vars>>

\* return Ok(()): the locals are dropped, which closes both sockets, and the
\* thread ends, dropping the GatewayBridge and its channel ends
RelayReturn ==
    /\ Alive /\ bridge_pc = "return"
    /\ bridge_pc' = "returned"
    /\ socket' = Dropped(socket)
    /\ socket_pair' = Dropped(socket_pair)
    /\ msg_to_send' = NoMsg
    /\ UNCHANGED <<bridge_err, req_wire, rep, ipc_base_addr, pair_in, wire, buf, gp_channel,
                   pg_channel, pg_sent, pg_refused, gp_sent, main_vars>>

(***************************************************************************)
(* The main thread: Plugin::run_forever.  A panic of the main thread, or   *)
(* an Err reaching main()'s unwrap(), ends the process.                    *)
(***************************************************************************)
\* One iteration of the dispatcher loop: try_recv and handle_msg(msg)?
Dispatch ==
    /\ Alive
    /\ IF gp_channel = << >>
       THEN UNCHANGED vars
       ELSE LET r == receiver_try_recv(gp_channel) IN
            \E o \in AdapterOutcomes :
                LET res == handle_msg(plugin, r.val.msg, o)
                    sent == IF BridgeEnded THEN << >>
                            ELSE handle_msg_sends(plugin, r.val.msg)
                IN
                /\ gp_channel' = r.rest
                /\ pg_channel' = pg_channel \o sent
                /\ pg_sent' = pg_sent \o sent
                /\ handled' = Append(handled, [msg |-> r.val.msg, n |-> r.val.n,
                                               result |-> res.result])
                /\ calls' = calls \o res.calls
                /\ main_pc' = IF res.result = "Ok" THEN "running" ELSE "panicked"
                /\ UNCHANGED <<bridge_vars, pair_in, pg_refused, gp_sent, plugin>>

(***************************************************************************)
(* The environment.                                                        *)
(***************************************************************************)
\* the gateway sends a steady-state frame on the persistent pair channel
GatewaySendsPair ==
    /\ Alive
    /\ socket_pair.state = "open" /\ socket_pair.ep = "connected"
    /\ Inputs < MaxInputs
    /\ \E f \in PairFrames : pair_in' = Append(pair_in, f)
    /\ UNCHANGED <<bridge_vars, gp_channel, pg_channel, pg_sent, pg_refused, gp_sent,
                   main_vars>>

\* a collaborator running on the main thread hands an event to Plugin.sender;
\* send fails once the bridge thread has dropped its receiver
CollabSend ==
    /\ Alive
    /\ Inputs < MaxInputs
    /\ \E m \in PluginMessage :
        IF BridgeEnded
        THEN /\ pg_refused' = pg_refused + 1
             /\ UNCHANGED <<pg_channel, pg_sent>>
        ELSE /\ pg_channel' = send(pg_channel, m)
             /\ pg_sent' = Append(pg_sent, m)
             /\ UNCHANGED pg_refused
    /\ UNCHANGED <<bridge_vars, pair_in, gp_channel, gp_sent, main_vars>>

(***************************************************************************)
(* Specifications.                                                         *)
(***************************************************************************)
Handshake ==
    \/ HsNewSocket \/ HsConnect \/ HsWrite \/ HsRead \/ HsShutdown \/ HsParse
    \/ PairNewSocket \/ PairConnect

\* the steps of the relay loop
RelayLoop == RelayRead \/ RelayDrain \/ RelayWrite \/ RelayShutdown \/ RelayReturn

\* the program's own steps and the gateway
Next ==
    \/ HsNewSocket \/ HsConnect \/ HsWrite \/ HsRead \/ HsShutdown \/ HsParse
    \/ PairNewSocket \/ PairConnect
    \/ RelayRead \/ RelayDrain \/ RelayWrite \/ RelayShutdown \/ RelayReturn
    \/ Dispatch
    \/ GatewaySendsPair

\* the components with their collaborators: the registry populated or not,
\* and events handed to Plugin.sender.  The program as main() builds it is
\* the case of the empty registry and no CollabSend step.
InitOpen == Init \/ InitWith(LoadedAdapters)

NextOpen == Next \/ CollabSend

SpecOpen == InitOpen /\ [][NextOpen]_vars

\* the same with fair scheduling of both threads, the peer of the pair
\* socket taking what is written
FairSpec ==
    /\ SpecOpen
    /\ WF_vars(Handshake) /\ WF_vars(RelayLoop) /\ WF_vars(Dispatch)

(***************************************************************************)
(* Properties.                                                             *)
(***************************************************************************)
Last(q) == q[Len(q)]

\* the commands whose arm looks the adapter up in the registry
IsAdapterCommand(m) == m.messageType \in {"setProperty", "startPairing", "cancelPairing"}

\* this step is the dispatcher taking the head of the inbound channel
DispatchStep == gp_channel # << >> /\ gp_channel' = Tail(gp_channel)

\* the steps of the handshake proper, on the request/reply connection
HandshakeSteps == {"req_new", "req_connect", "req_write", "req_read", "req_shutdown",
                   "req_parse"}

\* C1: handling an inbound message whose pluginId differs from the local
\* plugin id invokes no adapter operation, leaves the registry and the
\* outbound queue as they were, reports no error, and leaves the dispatcher
\* running - whether or not the adapterId of the message is in the registry.
C1_ForeignPluginIgnored ==
    [][ (DispatchStep /\ Head(gp_channel).msg.pluginId # plugin.id)
          => /\ calls' = calls
             /\ plugin' = plugin
             /\ pg_channel' = pg_channel /\ pg_sent' = pg_sent
             /\ Last(handled').result = "Ok"
             /\ main_pc' = "running" ]_vars

\* a SetProperty for another plugin, naming an adapter of the registry, was
\* handled
C1_Witness ==
    /\ main_pc = "running"
    /\ \E i \in DOMAIN handled :
        /\ handled[i].msg.pluginId # plugin.id
        /\ handled[i].msg.messageType = "setProperty"
        /\ handled[i].msg.adapterId \in DOMAIN plugin.adapters

\* the relay loop has been entered (it starts right after the pair connect)
RelayLoopEntered == socket_pair.ep # "none"

\* C2: a PluginUnloaded event that is on the outbound queue while the relay
\* loop runs is written by the loop, which then closes the external channel
\* and returns, once; stated for the moment at which nothing more can happen
\* (the bridge thread or the process has ended after the loop was entered):
\* by then the first PluginUnloaded enqueued has been written, it is the
\* last message written, the channel is closed and the loop has returned.
C2_ShutdownEventRelayed ==
    (RelayLoopEntered /\ (BridgeEnded \/ ~Alive)) =>
        \A i \in DOMAIN pg_sent :
            (pg_sent[i] \in PluginUnloaded /\ \A j \in 1..(i - 1) : pg_sent[j] \notin PluginUnloaded)
                => /\ Len(wire) = i
                   /\ wire[i] = to_string(pg_sent[i])
                   /\ socket_pair.ep = "shutdown"
                   /\ bridge_pc = "returned"

\* C3: a SetProperty, StartPairing or CancelPairing for the local plugin whose
\* adapterId is not in the registry is reported as NotFound, and the
\* dispatcher keeps running.
C3_MissingAdapterNotFound ==
    \A i \in DOMAIN handled :
        (/\ IsAdapterCommand(handled[i].msg)
         /\ handled[i].msg.pluginId = plugin.id
         /\ handled[i].msg.adapterId \notin DOMAIN plugin.adapters)
            => /\ handled[i].result = "NotFound"
               /\ (i = Len(handled) => main_pc = "running")

\* C4: a read that delivers a malformed byte sequence enqueues nothing on the
\* inbound queue and the loop goes on to its drain step.
C4_MalformedFrameDropped ==
    [][ (Len(buf') = Len(buf) + 1 /\ Last(buf') \in MalformedFrames)
          => /\ gp_channel' = gp_channel
             /\ gp_sent' = gp_sent
             /\ bridge_pc' = "drain" ]_vars

\* C5: a well-formed frame the gateway sent on the persistent pair channel
\* is eventually read from that channel by the relay loop, for as long as
\* the loop and the process keep running.
C5_PairFrameRead ==
    (pair_in # << >> /\ InRelayLoop /\ Alive) ~> (pair_in = << >> \/ ~InRelayLoop \/ ~Alive)

\* C6: outbound messages are written to the external channel in the order
\* in which they were enqueued: the j-th message written is the j-th
\* message enqueued.
C6_OutboundOrder ==
    \A j \in DOMAIN wire : j <= Len(pg_sent) /\ wire[j] = to_string(pg_sent[j])

\* two different events were enqueued and both were written
C6_Witness == Len(wire) = 2 /\ wire[1] # wire[2]

\* C7: the dispatcher handles the inbound messages in the order in which the
\* relay loop enqueued them, each once: the i-th message handled is the i-th
\* enqueued, and the channel holds the ones that follow, in order.
C7_InboundFifo ==
    /\ \A i \in DOMAIN handled : handled[i].n = i
    /\ \A k \in DOMAIN gp_channel : gp_channel[k].n = Len(handled) + k
    /\ gp_sent = Len(handled) + Len(gp_channel)

\* two messages were enqueued and both were handled
C7_Witness == Len(handled) = 2

\* C8: handling a SetProperty for the local plugin whose adapterId is in the
\* registry invokes set_property of that adapter once, with the deviceId and
\* the property of the message, and nothing else.
C8_SetPropertyInvokedOnce ==
    [][ (/\ DispatchStep
         /\ Head(gp_channel).msg.messageType = "setProperty"
         /\ Head(gp_channel).msg.pluginId = plugin.id
         /\ Head(gp_channel).msg.adapterId \in DOMAIN plugin.adapters)
          => calls' = Append(calls, Call(Head(gp_channel).msg.adapterId, "set_property",
                                         <<Head(gp_channel).msg.deviceId,
                                           Head(gp_channel).msg.property>>)) ]_vars

\* a SetProperty for device d2 of adapter a1 of the local plugin was handled
C8_Witness ==
    \E i \in DOMAIN handled :
        /\ handled[i].msg.messageType = "setProperty"
        /\ handled[i].msg.pluginId = plugin.id
        /\ handled[i].msg.adapterId \in DOMAIN plugin.adapters
        /\ handled[i].msg.deviceId = "d2"
        /\ calls # << >>

\* C9: one RegisterPlugin request at most is ever sent; the pair socket
\* exists and the relay loop runs only after that request was sent, a reply
\* was received and parsed as RegisterPluginReply and the request/reply
\* endpoint was shut down; nothing is read into the relay buffer, relayed or
\* written before the pair channel is connected.
C9_HandshakeBeforeRelay ==
    /\ Len(req_wire) <= 1
    /\ (socket_pair.state # "none" \/ InRelayLoop) =>
            /\ req_wire = <<RegisterPlugin(LocalPluginId)>>
            /\ rep \in {Whole(m) : m \in RegisterPluginReply}
            /\ ipc_base_addr = rep.m.ipcBaseAddr
            /\ socket.ep = "shutdown"
    /\ InRelayLoop => socket_pair.ep = "connected" /\ socket_pair.url = pair_url(ipc_base_addr)
    /\ socket_pair.ep = "none" => buf = << >> /\ wire = << >> /\ gp_sent = 0

\* the relay loop is running on the channel named by the reply
C9_Witness == InRelayLoop /\ socket_pair.url = pair_url("gateway.plugin.mqtt")

\* C10: after a failure of the handshake the pair channel is not connected,
\* the relay loop is not entered, nothing is relayed, and the process has
\* aborted: the dispatcher is not left running.
C10_HandshakeFailureAborts ==
    (bridge_pc = "panicked" /\ bridge_err \in HandshakeSteps) =>
        /\ socket_pair.state = "none"
        /\ buf = << >> /\ wire = << >> /\ gp_sent = 0
        /\ ~Alive

\* C11: when the dispatcher handles UnloadPlugin for the local plugin while
\* the relay loop runs, it enqueues the PluginUnloaded event on the outbound
\* queue and leaves its loop.
C11_UnloadPluginShutsDown ==
    [][ (/\ DispatchStep
         /\ InRelayLoop
         /\ Head(gp_channel).msg.messageType = "unloadPlugin"
         /\ Head(gp_channel).msg.pluginId = plugin.id)
          => /\ pg_sent' = Append(pg_sent, [variant |-> "PluginUnloaded",
                                             fields |-> [plugin_id |-> plugin.id]])
             /\ main_pc' # "running" ]_vars

\* the phases of the process, from what has happened so far:
\*   1 Unregistered   the request socket does not exist yet
\*   2 Registering    the handshake is in flight
\*   3 Relaying       the pair channel is connected, the relay loop entered
\*   4 ShuttingDown   the relay loop has taken a PluginUnloaded event
\*   5 Terminated     the channel is shut down and both loops have returned
\* A thread that has panicked leaves the phase where it was.
ShutdownObserved ==
    \E i \in 1..(Len(pg_sent) - Len(pg_channel)) : pg_sent[i] \in PluginUnloaded

Phase ==
    IF socket.state = "none" THEN 1
    ELSE IF ~RelayLoopEntered THEN 2
    ELSE IF ~ShutdownObserved THEN 3
    ELSE IF bridge_pc = "returned" /\ socket_pair.ep = "shutdown" /\ main_pc = "returned"
         THEN 5
    ELSE 4

\* C12: the phases advance one at a time in the order Unregistered,
\* Registering, Relaying, ShuttingDown, Terminated and never go back; the
\* pair endpoint is shut down only by the relay loop holding a PluginUnloaded
\* event it has taken from the outbound queue and already written, last, to
\* the channel; and the loop returns only after that shutdown.
C12_PhaseOrder ==
    [][ /\ Phase' \in {Phase, Phase + 1}
        /\ (socket_pair'.ep = "shutdown" /\ socket_pair.ep # "shutdown")
              => /\ bridge_pc = "shutdown"
                 /\ msg_to_send \in PluginUnloaded
                 /\ wire # << >> /\ Last(wire) = to_string(msg_to_send)
                 /\ wire' = wire
                 /\ Phase = 4
        /\ (bridge_pc' = "returned" /\ bridge_pc # "returned")
              => socket_pair.ep = "shutdown" ]_vars

\* the loop has returned after relaying another event and then PluginUnloaded
C12_Witness ==
    /\ Phase = 4
    /\ bridge_pc = "returned"
    /\ Len(wire) = 2
    /\ wire[1].messageType # "pluginUnloaded"

\* C13: a failed write of an outbound message does not end the relay loop:
\* after a write step that put nothing on the channel, the loop is still
\* running.
C13_WriteFailureContained ==
    [][ (bridge_pc = "write" /\ bridge_pc' # "write" /\ wire' = wire)
          => InRelayLoop' ]_vars

\* C14: a failure outcome of an adapter operation does not end the
\* dispatcher: after handling the command the main thread is still running.
C14_AdapterFailureContained ==
    \A i \in DOMAIN handled :
        (handled[i].result \in {"Err", "NotFound"} /\ i = Len(handled))
            => main_pc = "running"

\* the outbound table of the interface description: tag -> field names
Section6Outbound ==
    [pluginUnloaded |-> {"pluginId"},
     adapterUnloaded |-> {"pluginId", "adapterId"},
     addAdapter |-> {"pluginId", "adapterId", "name"},
     handleDeviceAdded |-> {"pluginId", "adapterId", "id", "name", "type", "properties",
                            "actions"},
     handleDeviceRemoved |-> {"pluginId", "adapterId", "id"},
     propertyChanged |-> {"pluginId", "adapterId", "deviceId", "property"}]

\* C15: every message written to the external channel carries a messageType
\* tag of the outbound table and exactly the field names the table lists for
\* that tag.
C15_WireFieldNames ==
    \A j \in DOMAIN wire :
        /\ wire[j].messageType \in DOMAIN Section6Outbound
        /\ DOMAIN wire[j].data = Section6Outbound[wire[j].messageType]

\* this step is a read of the relay loop that delivered a frame
ReadStep == Len(buf') = Len(buf) + 1

\* C16: the read buffer is empty when a read starts, and a read that
\* delivers a well-formed frame enqueues the message of that frame on the
\* inbound queue, once, whatever was read before.
C16_FrameParsedAlone ==
    [][ (ReadStep /\ Last(buf') \in WellFormedFrames)
          => /\ buf = << >>
             /\ gp_channel' = Append(gp_channel, [msg |-> Last(buf').m, n |-> gp_sent + 1]) ]_vars

LifecycleTags == {"unloadPlugin", "unloadAdapter", "removeThing", "cancelRemoveThing"}

\* C17: the registry changes only in a dispatcher step that handles a
\* SetProperty for the local plugin; handling UnloadPlugin, UnloadAdapter,
\* RemoveThing or CancelRemoveThing, for any pluginId, leaves the registry as
\* it was and invokes no adapter operation.
C17_LifecycleNoEffect ==
    [][ /\ plugin' # plugin
            => /\ DispatchStep
               /\ Head(gp_channel).msg.messageType = "setProperty"
               /\ Head(gp_channel).msg.pluginId = plugin.id
        /\ (DispatchStep /\ Head(gp_channel).msg.messageType \in LifecycleTags)
            => /\ plugin' = plugin
               /\ calls' = calls ]_vars

\* a RemoveThing for the local plugin, naming an adapter of the registry,
\* was handled
C17_Witness ==
    /\ main_pc = "running"
    /\ \E i \in DOMAIN handled :
        /\ handled[i].msg.messageType = "removeThing"
        /\ handled[i].msg.pluginId = plugin.id
        /\ handled[i].msg.adapterId \in DOMAIN plugin.adapters

\* the message the relay loop holds between try_recv and the end of write_all
InFlight == IF bridge_pc = "write" THEN <<msg_to_send>> ELSE << >>

\* what has been written is the encoding of the first messages enqueued,
\* what is queued is the last messages enqueued, and the message in flight
\* is the one enqueued right after those written
WirePrefixOfSent ==
    /\ Len(wire) + Len(InFlight) + Len(pg_channel) <= Len(pg_sent)
    /\ wire = [j \in 1..Len(wire) |-> to_string(pg_sent[j])]
    /\ InFlight # << >> => msg_to_send = pg_sent[Len(wire) + 1]
    /\ pg_channel = SubSeq(pg_sent, Len(pg_sent) - Len(pg_channel) + 1, Len(pg_sent))
    /\ InRelayLoop => Len(wire) + Len(InFlight) + Len(pg_channel) = Len(pg_sent)

\* C18: the messages written to the external channel are always a prefix of
\* the messages enqueued on the outbound queue; a write happens only in the
\* write step of the relay loop, writes the one message the loop took from
\* the queue in that iteration, and no step of the dispatcher writes.
C18_RelayIntegrity ==
    [][ /\ WirePrefixOfSent'
        /\ wire' # wire
            => /\ bridge_pc = "write"
               /\ wire' = Append(wire, to_string(msg_to_send))
               /\ pg_channel' = pg_channel
        /\ (bridge_pc = "drain" /\ bridge_pc' = "write")
            => /\ msg_to_send' = Head(pg_channel)
               /\ pg_channel' = Tail(pg_channel)
        /\ DispatchStep => wire' = wire ]_vars

\* one event has been written, and the next one, taken from the queue, is
\* held by the loop in write_all
C18_Witness == bridge_pc = "write" /\ Len(wire) = 1 /\ pg_channel = << >>

IsFirstPluginUnloaded(sent, i) ==
    /\ i \in DOMAIN sent
    /\ sent[i] \in PluginUnloaded
    /\ \A j \in 1..(i - 1) : sent[j] \notin PluginUnloaded

\* C19: when the pair endpoint is shut down, every event enqueued before the
\* first PluginUnloaded has been written, in order, and PluginUnloaded is the
\* last one written; once PluginUnloaded is written nothing more is written,
\* so events enqueued after it never are.
C19_NoLossAtShutdown ==
    [][ /\ socket_pair'.ep = "shutdown"
            => \E i \in DOMAIN pg_sent' :
                    /\ IsFirstPluginUnloaded(pg_sent', i)
                    /\ wire' = [j \in 1..i |-> to_string(pg_sent'[j])]
        /\ (\E j \in DOMAIN wire : wire[j].messageType = "pluginUnloaded")
            => wire' = wire ]_vars

\* the loop has returned and an event enqueued after PluginUnloaded is left
\* in the queue
C19_Witness ==
    /\ bridge_pc = "returned"
    /\ socket_pair.ep = "shutdown"
    /\ pg_channel # << >>

\* C20: no step of the dispatcher enqueues anything on the outbound queue,
\* whatever inbound message it handles; so in the program as main() builds
\* it, where nobody else holds the sender (nothing has been handed to it),
\* the queue is empty, nothing is taken from it or written to the pair
\* channel, and once the relay loop is entered it never leaves the loop,
\* returns or shuts the pair endpoint down.
C20_OutboundNeverUsed ==
    [][ /\ DispatchStep => pg_channel' = pg_channel /\ pg_sent' = pg_sent
        /\ (pg_sent' = << >> /\ pg_refused' = 0)
            => /\ pg_channel' = << >>
               /\ msg_to_send' = NoMsg
               /\ wire' = << >>
               /\ bridge_pc' \notin {"write", "shutdown", "return", "returned"}
               /\ socket_pair'.ep # "shutdown"
               /\ RelayLoopEntered' => InRelayLoop' /\ socket_pair'.state = "open" ]_vars

\* the dispatcher has handled UnloadPlugin for the local plugin and the relay
\* loop is still polling
C20_Witness ==
    /\ InRelayLoop
    /\ main_pc = "running"
    /\ pg_sent = << >> /\ pg_refused = 0
    /\ \E i \in DOMAIN handled :
        /\ handled[i].msg.messageType = "unloadPlugin"
        /\ handled[i].msg.pluginId = plugin.id

====
